---------------------------- MODULE Spec2Model ----------------------------
(***************************************************************************)
(* Checkpoint configuration resolution of great_expectations:              *)
(*   checkpoint/util.py     batch-request resolution, validation entries,  *)
(*                          notification senders                           *)
(*   checkpoint/toolkit.py  add / get / delete / run of stored checkpoints *)
(*                                                                         *)
(* Python values are modelled as records [k, s, d]: k is the kind ("null", *)
(* "str", "dict"), s the string of a "str", d the content of a "dict" (a   *)
(* function from keys to strings, the string "None" standing for a nested  *)
(* null).  A dict of the program is a function whose DOMAIN is its key set.*)
(* An in-memory payload (a DataFrame) is a token such as "df1"; a copy of  *)
(* the object is a different token.                                        *)
(***************************************************************************)
EXTENDS Integers, Sequences, FiniteSets, TLC

VARIABLES
  \* resolution of one batch-request pair
  top,        \* substituted_runtime_config.batch_request, as the caller holds it
  entry,      \* the validation entry's batch_request, as the caller holds it
  cloud,      \* ge_cloud_mode
  now,        \* the wall clock read by datetime.datetime.now()
  calls,      \* the calls of get_runtime_batch_request made so far
  \* notification senders
  sent,       \* the notifications attempted so far, with what each sender did
  \* one checkpoint run over its validation entries
  config,     \* the substituted run configuration (top level)
  validations,\* the validation entries of the run, in list order
  idx,        \* the entry the run is at
  phase,      \* the state of the run
  current,    \* the resolved form of the entry the run is at
  executed,   \* the entries whose expectation suite has been run
  dispatched, \* the entries whose action list has been dispatched
  failure,    \* the error that aborted the run
  \* the checkpoint store and the toolkit calls made on it
  store,      \* checkpoint_store: key -> stored configuration
  last        \* the last toolkit call: its arguments and what it did

resolveVars == <<top, entry, now, calls>>
runVars == <<config, validations, idx, phase, current, executed, dispatched, failure>>

toolkitVars == <<store, last>>

vars == <<top, entry, cloud, now, calls, sent, config, validations, idx, phase,
          current, executed, dispatched, failure, store, last>>

---------------------------------------------------------------------------
(* Bounds of the model *)

MaxTopKeys == 2
MaxEntryKeys == 3
MaxCalls == 2
MaxClock == 1
MaxSends == 2
MaxValidations == 2
MaxToolkitCalls == 2
MaxActions == 2

---------------------------------------------------------------------------
(* Python values *)

NoDict == [x \in {} |-> ""]
EmptyMap == [x \in {} |-> [k |-> "null", s |-> "", d |-> NoDict]]

Nul == [k |-> "null", s |-> "", d |-> NoDict]
Str(x) == [k |-> "str", s |-> x, d |-> NoDict]
Dict(f) == [k |-> "dict", s |-> "", d |-> f]

Lst(q) == [k |-> "list", s |-> "", d |-> q]

IsNone(v) == v.k = "null"

\* not v: None, the empty string, the empty dict and the empty list are falsy
Falsy(v) ==
  \/ v.k = "null"
  \/ v.k = "str" /\ v.s = ""
  \/ v.k = "dict" /\ DOMAIN v.d = {}
  \/ v.k = "list" /\ Len(v.d) = 0

\* a or b
Or(a, b) == IF Falsy(a) THEN b ELSE a

\* dict.get(key): the value, or None when the key is absent
Get(m, key) == IF key \in DOMAIN m THEN m[key] ELSE Nul

\* dict.get(key) on a nested dict of strings
DGet(d, key) == IF key \in DOMAIN d THEN d[key] ELSE "None"

\* a.update(b): b's value wins on every key of b
Update(a, b) ==
  [key \in DOMAIN a \cup DOMAIN b |-> IF key \in DOMAIN b THEN b[key] ELSE a[key]]

\* the dict without one key (dict.pop, del)
Without(m, key) == [x \in DOMAIN m \ {key} |-> m[x]]

\* the dict with one key set
With(m, key, v) == [x \in DOMAIN m \cup {key} |-> IF x = key THEN v ELSE m[x]]

---------------------------------------------------------------------------
(* checkpoint/util.py: get_runtime_batch_request *)

Payloads == {"df1"}

\* copy.deepcopy of one object: a payload is copied to another object, a plain
\* string to an equal string
CopyOf(x) == IF x = "df1" THEN "df1_copy" ELSE x

\* copy.deepcopy of a dict with its nested dicts
deepcopy(m) ==
  [key \in DOMAIN m |->
     IF m[key].k = "dict"
       THEN Dict([x \in DOMAIN m[key].d |-> CopyOf(m[key].d[x])])
       ELSE m[key]]

\* field_names of the two request classes
BatchRequestFields ==
  {"datasource_name", "data_connector_name", "data_asset_name", "data_connector_query"}

RuntimeBatchRequestFields ==
  {"datasource_name", "data_connector_name", "data_asset_name",
   "runtime_parameters", "batch_identifiers"}

FieldNames(cls) ==
  IF cls = "RuntimeBatchRequest" THEN RuntimeBatchRequestFields ELSE BatchRequestFields

\* filter_properties_dict(properties, keep_fields=..., clean_falsy=True)
KeepFields_CleanFalsy(m, fields) ==
  [key \in {x \in DOMAIN m \cap fields : ~Falsy(m[x])} |-> m[key]]

\* filter_properties_dict(properties, keep_fields=..., clean_nulls=False)
KeepFields(m, fields) == [key \in DOMAIN m \cap fields |-> m[key]]

\* m.get("runtime_parameters") is not None
\*   and m["runtime_parameters"].get("batch_data") is not None
HasBatchData(m) ==
  /\ Get(m, "runtime_parameters").k = "dict"
  /\ DGet(Get(m, "runtime_parameters").d, "batch_data") # "None"

BatchDataOf(m) == DGet(Get(m, "runtime_parameters").d, "batch_data")

\* m["runtime_parameters"].pop("batch_data")
PopBatchData(m) ==
  With(m, "runtime_parameters", Dict(Without(m["runtime_parameters"].d, "batch_data")))

\* m["runtime_parameters"]["batch_data"] = x
PutBatchData(m, x) ==
  With(m, "runtime_parameters",
       Dict([key \in DOMAIN m["runtime_parameters"].d \cup {"batch_data"} |->
               IF key = "batch_data" THEN x ELSE m["runtime_parameters"].d[key]]))

\* dict(**a, **b): a keyword given twice is a TypeError
DuplicateKeywords(a, b) == DOMAIN a \cap DOMAIN b

\* lines 242-252 with the entry mapping deep-copied whole, payload included
ConflictCopy_Whole(validation_batch_request) == deepcopy(validation_batch_request)

\* lines 242-252: the copy of the entry mapping used for the conflict check;
\* the payload is taken out before the deep copy and put back afterwards
ConflictCopy(validation_batch_request) ==
  IF HasBatchData(validation_batch_request)
    THEN PutBatchData(deepcopy(PopBatchData(validation_batch_request)),
                      BatchDataOf(validation_batch_request))
    ELSE deepcopy(validation_batch_request)

\* lines 254-262: the keys given, non-null, at both levels
ConflictingKeys(runtime_batch_request_dict, runtime_config_batch_request) ==
  {key \in DOMAIN runtime_batch_request_dict :
     /\ ~IsNone(runtime_batch_request_dict[key])
     /\ ~IsNone(Get(runtime_config_batch_request, key))}

\* what a call leaves behind: kind is "ok" (a request is returned), "None"
\* (None is returned) or the class of the exception raised; keys are the keys
\* the exception's message may name; t and e are the caller's two objects as
\* the call leaves them
Outcome(kind, keys, cls, req, t, e) ==
  [kind |-> kind, keys |-> keys, cls |-> cls, req |-> req, top |-> t, entry |-> e]

\* lines 265-269 for a merged dict that has the key batch_identifiers: its value
\* is changed in place, and it is the top-level request's own object when the
\* top-level request supplied it (update at line 263 copies the reference)
StampGiven(merged, cls, t, e, clock) ==
  LET bi == merged["batch_identifiers"]
      stamped == Dict([x \in {"timestamp"} |-> ToString(clock)])
  IN IF bi.k # "dict"
       THEN Outcome("AttributeError", {"batch_identifiers"}, "", EmptyMap, t, e)
       ELSE IF DOMAIN bi.d = {}
         THEN Outcome("ok", {}, cls,
                      KeepFields(With(merged, "batch_identifiers", stamped), FieldNames(cls)),
                      IF t.some /\ "batch_identifiers" \in DOMAIN t.m
                        THEN [t EXCEPT !.m = With(t.m, "batch_identifiers", stamped)]
                        ELSE t,
                      e)
         ELSE Outcome("ok", {}, cls, KeepFields(merged, FieldNames(cls)), t, e)

\* lines 265-278
StampAndBuild(merged, cls, ge_cloud_mode, t, e, clock) ==
  IF ge_cloud_mode /\ cls = "RuntimeBatchRequest"
    THEN IF "batch_identifiers" \in DOMAIN merged
           THEN StampGiven(merged, cls, t, e, clock)
           ELSE Outcome("ok", {}, cls,
                        KeepFields(With(merged, "batch_identifiers",
                                        Dict([x \in {"timestamp"} |-> ToString(clock)])),
                                   FieldNames(cls)),
                        t, e)
    ELSE Outcome("ok", {}, cls, KeepFields(merged, FieldNames(cls)), t, e)

\* lines 219-223: None becomes the empty dict
OrEmpty(x) == IF x.some THEN x.m ELSE EmptyMap

\* MergeAndCheck as a merge in which the entry's value silently wins: no duplicate
\* keyword error and no conflict check
MergeAndCheck_EntryWins(t, e, ge_cloud_mode, clock) ==
  StampAndBuild(Update(OrEmpty(t), ConflictCopy(OrEmpty(e))),
                IF "runtime_parameters" \in DOMAIN OrEmpty(t) \cup DOMAIN OrEmpty(e)
                  THEN "RuntimeBatchRequest" ELSE "BatchRequest",
                ge_cloud_mode, t, e, clock)

\* MergeAndCheck with the request class read off the entry mapping alone
MergeAndCheck_EntryShape(t, e, ge_cloud_mode, clock) ==
  IF DuplicateKeywords(OrEmpty(t), OrEmpty(e)) # {}
    THEN Outcome("TypeError", DuplicateKeywords(OrEmpty(t), OrEmpty(e)), "", EmptyMap, t, e)
    ELSE StampAndBuild(Update(ConflictCopy(OrEmpty(e)), OrEmpty(t)),
                       IF "runtime_parameters" \in DOMAIN OrEmpty(e)
                         THEN "RuntimeBatchRequest" ELSE "BatchRequest",
                       ge_cloud_mode, t, e, clock)

\* lines 219-263
MergeAndCheck(t, e, ge_cloud_mode, clock) ==
  LET runtime_config_batch_request == OrEmpty(t)
      validation_batch_request == OrEmpty(e)
      dup == DuplicateKeywords(runtime_config_batch_request, validation_batch_request)
      effective_batch_request ==
        Update(runtime_config_batch_request, validation_batch_request)
      batch_request_class ==
        IF "runtime_parameters" \in DOMAIN effective_batch_request
          THEN "RuntimeBatchRequest" ELSE "BatchRequest"
      runtime_batch_request_dict == ConflictCopy(validation_batch_request)
      conflicts == ConflictingKeys(runtime_batch_request_dict, runtime_config_batch_request)
  IN IF dup # {}
       THEN Outcome("TypeError", dup, "", EmptyMap, t, e)
       ELSE IF conflicts # {}
         THEN Outcome("CheckpointError", conflicts, "", EmptyMap, t, e)
         ELSE StampAndBuild(Update(runtime_batch_request_dict, runtime_config_batch_request),
                            batch_request_class, ge_cloud_mode, t, e, clock)

\* t, e: the top-level batch request of the run configuration and the entry's
\* batch request, each [some |-> FALSE] for None; clock: datetime.now()
get_runtime_batch_request(t, e, ge_cloud_mode, clock) ==
  IF ~t.some /\ ~e.some
    THEN Outcome("None", {}, "", EmptyMap, t, e)
    ELSE MergeAndCheck(t, e, ge_cloud_mode, clock)

---------------------------------------------------------------------------
(* Inputs: batch-request mappings *)

NoneMap == [some |-> FALSE, m |-> EmptyMap]
Some(m) == [some |-> TRUE, m |-> m]

KeyValues ==
  [datasource_name |-> {Nul, Str("d1")},
   data_connector_name |-> {Str("c1")},
   data_asset_name |-> {Str("a1")},
   runtime_parameters |-> {Nul, Dict(NoDict), Dict([batch_data |-> "df1"])},
   batch_identifiers |-> {Nul, Dict(NoDict), Dict([default_identifier_name |-> "x"])},
   unknown_field |-> {Str("u")}]

AllValues == UNION {KeyValues[key] : key \in DOMAIN KeyValues}

\* the mappings with at most n keys
Maps(n) ==
  UNION {{m \in [D -> AllValues] : \A key \in D : m[key] \in KeyValues[key]} :
           D \in {D \in SUBSET DOMAIN KeyValues : Cardinality(D) <= n}}

OptMaps(n) == {NoneMap} \cup {Some(m) : m \in Maps(n)}

---------------------------------------------------------------------------
(* The variables a specification does not use stay at these values *)

NoFailure == [at |-> 0, kind |-> "", message |-> ""]

NoEntry ==
  [batch_request |-> [cls |-> "", req |-> EmptyMap],
   expectation_suite_name |-> Nul, action_list |-> <<>>,
   evaluation_parameters |-> Nul, runtime_configuration |-> Nul]

IdleResolve ==
  /\ top = NoneMap
  /\ entry = NoneMap
  /\ now = 0
  /\ calls = <<>>

IdleRun ==
  /\ config = [batch_request |-> NoneMap, expectation_suite_name |-> Nul, action_list |-> <<>>,
               evaluation_parameters |-> Nul, runtime_configuration |-> Nul]
  /\ validations = <<>>
  /\ idx = 0
  /\ phase = "Idle"
  /\ current = NoEntry
  /\ executed = {}
  /\ dispatched = {}
  /\ failure = NoFailure

NoCall ==
  [n |-> 0, op |-> "", kind |-> "", arg |-> EmptyMap, kwargs |-> EmptyMap,
   stored |-> NoneMap, wrote |-> FALSE, out |-> EmptyMap, listed |-> <<>>, added |-> <<>>]

IdleToolkit ==
  /\ store = [x \in {} |-> EmptyMap]
  /\ last = NoCall

---------------------------------------------------------------------------
(* Resolution of one (top, entry) pair, called repeatedly on the same objects *)

InitResolve ==
  /\ top \in OptMaps(MaxTopKeys)
  /\ entry \in OptMaps(MaxEntryKeys)
  /\ cloud \in BOOLEAN
  /\ now = 0
  /\ calls = <<>>
  /\ sent = <<>>
  /\ IdleRun
  /\ IdleToolkit

Resolve ==
  /\ Len(calls) < MaxCalls
  /\ LET r == get_runtime_batch_request(top, entry, cloud, now)
     IN /\ calls' = Append(calls, [top0 |-> top, entry0 |-> entry, out |-> r])
        /\ top' = r.top
        /\ entry' = r.entry
  /\ UNCHANGED <<cloud, now, sent, runVars, toolkitVars>>

Tick ==
  /\ now < MaxClock
  /\ now' = now + 1
  /\ UNCHANGED <<top, entry, cloud, calls, sent, runVars, toolkitVars>>

NextResolve == Resolve \/ Tick

SpecResolve == InitResolve /\ [][NextResolve]_vars

---------------------------------------------------------------------------
(* Claims about get_runtime_batch_request (SpecResolve) *)

\* the keys that are non-null in both mappings of a call
SharedNonNull(c) ==
  {key \in DOMAIN c.top0.m \cap DOMAIN c.entry0.m :
     ~IsNone(c.top0.m[key]) /\ ~IsNone(c.entry0.m[key])}

\* C3: whenever the top-level and the entry-level mapping share a key that is
\* non-null in both, the call raises CheckpointError and the message names such
\* a key; it neither returns nor raises another exception.
C3_SharedKeyRaisesCheckpointError ==
  \A i \in 1..Len(calls) :
    SharedNonNull(calls[i]) # {} =>
      /\ calls[i].out.kind = "CheckpointError"
      /\ calls[i].out.keys \cap SharedNonNull(calls[i]) # {}

\* C4 (in non-cloud mode): whenever no key is non-null on both sides and not
\* both inputs are None, the call returns a request, and each field of that
\* request has the entry's value when the entry supplies the key and the
\* top-level value otherwise.
C4_NoCollisionResolves ==
  \A i \in 1..Len(calls) :
    LET c == calls[i]
    IN (~cloud /\ SharedNonNull(c) = {} /\ (c.top0.some \/ c.entry0.some)) =>
         /\ c.out.kind = "ok"
         /\ \A key \in DOMAIN c.out.req :
              c.out.req[key] =
                IF key \in DOMAIN c.entry0.m THEN c.entry0.m[key] ELSE c.top0.m[key]

\* the two mappings of the scenario of C5
C5Top == Some([datasource_name |-> Str("d1")])

C5Entry ==
  Some([datasource_name |-> Str("d1"), data_connector_name |-> Str("c1"),
        data_asset_name |-> Str("a1")])

\* C5 as claimed: resolving C5Entry under C5Top raises nothing and yields the
\* three fields of the entry.
C5_ScenarioResolves ==
  \A i \in 1..Len(calls) :
    (calls[i].top0 = C5Top /\ calls[i].entry0 = C5Entry) =>
      /\ calls[i].out.kind = "ok"
      /\ calls[i].out.req = C5Entry.m

\* C5 as amended: resolving C5Entry under C5Top raises an error that names
\* datasource_name, the key given at both levels, and returns no request.
C5_ScenarioRaises ==
  \A i \in 1..Len(calls) :
    (calls[i].top0 = C5Top /\ calls[i].entry0 = C5Entry) =>
      /\ calls[i].out.kind \in {"TypeError", "CheckpointError"}
      /\ calls[i].out.keys = {"datasource_name"}

C5_Witness ==
  /\ Len(calls) >= 1
  /\ calls[1].top0 = C5Top
  /\ calls[1].entry0 = C5Entry
  /\ calls[1].out.kind # "ok"

\* what a call hands back to its caller: a request, None or an exception
Returned(c) == [kind |-> c.out.kind, cls |-> c.out.cls, req |-> c.out.req]

\* C7: two calls on the same top-level configuration and entry yield equal
\* results, and no call changes the top-level batch request (nested
\* batch_identifiers and runtime_parameters included) or the entry mapping.
C7_IdempotentNoMutation ==
  /\ \A i \in 1..Len(calls) :
       /\ calls[i].out.top = calls[i].top0
       /\ calls[i].out.entry = calls[i].entry0
  /\ \A i, j \in 1..Len(calls) : Returned(calls[i]) = Returned(calls[j])

\* the two mappings of a call have no key in common (line 231 lets them through)
DisjointKeys(c) == DOMAIN c.top0.m \cap DOMAIN c.entry0.m = {}

\* the merged mapping of a call, as its inputs give it
MergedInput(c) == Update(c.top0.m, c.entry0.m)

RuntimeShaped(c) == "runtime_parameters" \in DOMAIN MergedInput(c)

\* no batch identifiers supplied: the key is absent, null or an empty mapping
NoIdentifiers(c) == Falsy(Get(MergedInput(c), "batch_identifiers"))

\* C13: in cloud mode, whenever the merged request is runtime-shaped and
\* supplies no batch identifiers (key absent, null or the empty mapping), the
\* call returns a request whose batch_identifiers has exactly the key
\* "timestamp", with a non-empty string value; when identifiers are supplied,
\* or cloud mode is off, the batch_identifiers are returned as supplied.
C13_CloudTimestamp ==
  \A i \in 1..Len(calls) :
    LET c == calls[i]
    IN (DisjointKeys(c) /\ (c.top0.some \/ c.entry0.some) /\ RuntimeShaped(c)) =>
         /\ c.out.kind = "ok"
         /\ IF cloud /\ NoIdentifiers(c)
              THEN /\ Get(c.out.req, "batch_identifiers").k = "dict"
                   /\ DOMAIN c.out.req["batch_identifiers"].d = {"timestamp"}
                   /\ c.out.req["batch_identifiers"].d["timestamp"] # ""
              ELSE Get(c.out.req, "batch_identifiers") = Get(MergedInput(c), "batch_identifiers")

\* C14: a returned request is a RuntimeBatchRequest if and only if the key
\* runtime_parameters is present in the top-level or the entry-level mapping,
\* and a BatchRequest otherwise; the two shapes are never mixed in one request;
\* None is returned exactly when both inputs are None.
C14_ShapeFollowsRuntimeParameters ==
  \A i \in 1..Len(calls) :
    LET c == calls[i]
    IN /\ c.out.kind = "ok" =>
            /\ c.out.cls \in {"RuntimeBatchRequest", "BatchRequest"}
            /\ c.out.cls = "RuntimeBatchRequest" <=>
                 "runtime_parameters" \in DOMAIN c.top0.m \cup DOMAIN c.entry0.m
            /\ c.out.cls = "RuntimeBatchRequest" <=> "runtime_parameters" \in DOMAIN c.out.req
            /\ DOMAIN c.out.req \subseteq FieldNames(c.out.cls)
       /\ c.out.kind = "None" <=> (~c.top0.some /\ ~c.entry0.some)

\* a runtime request whose runtime_parameters come from the top level alone
C14_Witness ==
  /\ Len(calls) = 1
  /\ calls[1].out.kind = "ok"
  /\ calls[1].out.cls = "RuntimeBatchRequest"
  /\ calls[1].entry0.some
  /\ "runtime_parameters" \in DOMAIN calls[1].top0.m \ DOMAIN calls[1].entry0.m

---------------------------------------------------------------------------
(* checkpoint/util.py: the notification senders *)

HTTP_OK == 200
HTTP_ACCEPTED == 202

\* what session.post can do: raise requests.ConnectionError, raise any other
\* exception, or return a response with a status code
PostOutcomes ==
  {[exc |-> "ConnectionError", status |-> 0], [exc |-> "Exception", status |-> 0]}
    \cup {[exc |-> "", status |-> c] : c \in {HTTP_OK, HTTP_ACCEPTED, 404, 500}}

\* what the SMTP conversation of send_email (connect, starttls, login, sendmail,
\* quit) can do: raise one of the two named errors, raise any other exception,
\* or run to its end
SmtpOutcomes == {"SMTPConnectError", "SMTPAuthenticationError", "Exception", ""}

\* what a sender does: the exception that escapes it ("" for none) and the
\* value it returns ("None" for None)
Sender(raised, ret) == [raised |-> raised, ret |-> ret]

\* send_slack_notification without its two exception handlers
send_slack_notification_Unguarded(post) ==
  IF post.exc # "" THEN Sender(post.exc, "None")
  ELSE IF post.status # HTTP_OK THEN Sender("", "None")
  ELSE Sender("", "Slack notification succeeded.")

\* lines 34-55: try / except ConnectionError / except Exception / else
send_slack_notification(post) ==
  IF post.exc = "ConnectionError" THEN Sender("", "None")
  ELSE IF post.exc # "" THEN Sender("", "None")
  ELSE IF post.status # HTTP_OK THEN Sender("", "None")
  ELSE Sender("", "Slack notification succeeded.")

\* lines 81-99: as above, with "error" returned after every failure
send_opsgenie_alert(post) ==
  IF post.exc = "ConnectionError" THEN Sender("", "error")
  ELSE IF post.exc # "" THEN Sender("", "error")
  ELSE IF post.status # HTTP_ACCEPTED THEN Sender("", "error")
  ELSE Sender("", "success")

\* lines 104-127
send_microsoft_teams_notifications(post) ==
  IF post.exc = "ConnectionError" THEN Sender("", "None")
  ELSE IF post.exc # "" THEN Sender("", "None")
  ELSE IF post.status # HTTP_OK THEN Sender("", "None")
  ELSE Sender("", "Microsoft Teams notification succeeded.")

\* lines 132-159
send_webhook_notifications(post) ==
  IF post.exc = "ConnectionError" THEN Sender("", "None")
  ELSE IF post.exc # "" THEN Sender("", "None")
  ELSE IF post.status # HTTP_OK THEN Sender("", "None")
  ELSE Sender("", "target_platform notification succeeded.")

\* send_email without its last handler, except Exception
send_email_NoCatchAll(smtp) ==
  IF smtp = "SMTPConnectError" THEN Sender("", "None")
  ELSE IF smtp = "SMTPAuthenticationError" THEN Sender("", "None")
  ELSE IF smtp # "" THEN Sender(smtp, "None")
  ELSE Sender("", "success")

\* lines 180-205: try / except SMTPConnectError / except SMTPAuthenticationError
\* / except Exception / else
send_email(smtp) ==
  IF smtp = "SMTPConnectError" THEN Sender("", "None")
  ELSE IF smtp = "SMTPAuthenticationError" THEN Sender("", "None")
  ELSE IF smtp # "" THEN Sender("", "None")
  ELSE Sender("", "success")

Sent(sender, how, delivered, did) ==
  [sender |-> sender, how |-> how, delivered |-> delivered, did |-> did]

InitNotify ==
  /\ IdleResolve
  /\ cloud = FALSE
  /\ sent = <<>>
  /\ IdleRun
  /\ IdleToolkit

SendSlack ==
  /\ Len(sent) < MaxSends
  /\ \E post \in PostOutcomes, slack_webhook \in {"None", "https://hooks"} :
       sent' = Append(sent, Sent("slack", slack_webhook,
                                 post.exc = "" /\ post.status = HTTP_OK,
                                 send_slack_notification(post)))
  /\ UNCHANGED <<resolveVars, cloud, runVars, toolkitVars>>

SendOpsgenie ==
  /\ Len(sent) < MaxSends
  /\ \E post \in PostOutcomes, region \in {"None", "eu"} :
       sent' = Append(sent, Sent("opsgenie", region,
                                 post.exc = "" /\ post.status = HTTP_ACCEPTED,
                                 send_opsgenie_alert(post)))
  /\ UNCHANGED <<resolveVars, cloud, runVars, toolkitVars>>

SendTeams ==
  /\ Len(sent) < MaxSends
  /\ \E post \in PostOutcomes :
       sent' = Append(sent, Sent("teams", "webhook",
                                 post.exc = "" /\ post.status = HTTP_OK,
                                 send_microsoft_teams_notifications(post)))
  /\ UNCHANGED <<resolveVars, cloud, runVars, toolkitVars>>

SendWebhook ==
  /\ Len(sent) < MaxSends
  /\ \E post \in PostOutcomes :
       sent' = Append(sent, Sent("webhook", "webhook",
                                 post.exc = "" /\ post.status = HTTP_OK,
                                 send_webhook_notifications(post)))
  /\ UNCHANGED <<resolveVars, cloud, runVars, toolkitVars>>

SendEmail ==
  /\ Len(sent) < MaxSends
  /\ \E smtp \in SmtpOutcomes, security \in {"ssl", "tls", "plain"} :
       sent' = Append(sent, Sent("email", security, smtp = "", send_email(smtp)))
  /\ UNCHANGED <<resolveVars, cloud, runVars, toolkitVars>>

NextNotify == SendSlack \/ SendOpsgenie \/ SendTeams \/ SendWebhook \/ SendEmail

SpecNotify == InitNotify /\ [][NextNotify]_vars

---------------------------------------------------------------------------
(* Claims about the notification senders (SpecNotify) *)

\* C10: the Slack, Teams, webhook and email senders never raise, whatever the
\* transport does; each returns a success string only when the delivery
\* succeeded and None in every other case.
C10_SendersNeverRaise ==
  \A i \in 1..Len(sent) :
    sent[i].sender \in {"slack", "teams", "webhook", "email"} =>
      /\ sent[i].did.raised = ""
      /\ sent[i].delivered => sent[i].did.ret # "None"
      /\ ~sent[i].delivered => sent[i].did.ret = "None"

C10_Witness ==
  /\ Len(sent) = 2
  /\ sent[1].sender = "slack" /\ ~sent[1].delivered /\ sent[1].did.ret = "None"
  /\ sent[2].sender = "email" /\ sent[2].delivered /\ sent[2].did.ret = "success"

\* bool(ret) of a sender's return value: None and "" are falsy
Truthy(ret) == ret \notin {"None", ""}

\* C11: every sender (Slack, Opsgenie, Teams, webhook, email) signals a failed
\* delivery by a falsy return value; a truthy return value occurs only after a
\* successful delivery.
C11_TruthyOnlyAfterDelivery ==
  \A i \in 1..Len(sent) :
    /\ sent[i].did.raised = ""
    /\ Truthy(sent[i].did.ret) => sent[i].delivered

---------------------------------------------------------------------------
(* checkpoint/util.py: get_substituted_validation_dict, validate_validation_dict *)

\* validation_dict.get("batch_request"), as an argument of get_runtime_batch_request
EntryRequest(validation_dict) ==
  IF Get(validation_dict, "batch_request").k = "dict"
    THEN Some(validation_dict["batch_request"].d)
    ELSE NoneMap

\* validation_dict.get("action_list", {})
EntryActions(validation_dict) ==
  IF "action_list" \in DOMAIN validation_dict /\ validation_dict["action_list"].k = "list"
    THEN validation_dict["action_list"].d
    ELSE <<>>

ActionNames(q) == {q[i].name : i \in 1..Len(q)}

\* validation_dict.get(key, {}) for a key that holds a dict of strings
EntryDict(validation_dict, key) ==
  IF Get(validation_dict, key).k = "dict" THEN validation_dict[key].d ELSE NoDict

\* nested_update(d, u) on dicts of strings: a new mapping with u's values
\* over d's; d itself when u is empty
nested_update(d, u) ==
  IF DOMAIN u = {} THEN d
  ELSE IF d.k = "dict" THEN Dict(Update(d.d, u))
  ELSE Dict(u)

\* CheckpointConfig.get_updated_action_list: an action of the entry replaces the
\* top-level action of the same name, the entry's other actions are added
get_updated_action_list(base_action_list, other_action_list) ==
  [i \in 1..Len(base_action_list) |->
     IF base_action_list[i].name \in ActionNames(other_action_list)
       THEN other_action_list[CHOOSE j \in 1..Len(other_action_list) :
                                other_action_list[j].name = base_action_list[i].name]
       ELSE base_action_list[i]]
    \o SelectSeq(other_action_list, LAMBDA a : a.name \notin ActionNames(base_action_list))

\* validate_validation_dict without its expectation_suite_name check
validate_validation_dict_NoSuiteCheck(validation_dict) ==
  IF validation_dict.batch_request.cls = ""
    THEN "validation batch_request cannot be None"
  ELSE IF Len(validation_dict.action_list) = 0
    THEN "validation action_list cannot be empty"
  ELSE ""

\* lines 314-322: the message of the CheckpointError raised, "" when none is
validate_validation_dict(validation_dict) ==
  IF validation_dict.batch_request.cls = ""
    THEN "validation batch_request cannot be None"
  ELSE IF Falsy(validation_dict.expectation_suite_name)
    THEN "validation expectation_suite_name must be specified"
  ELSE IF Len(validation_dict.action_list) = 0
    THEN "validation action_list cannot be empty"
  ELSE ""

\* lines 284-307: the substituted dict, given the resolved batch request br
\* (cls "" stands for None)
SubstitutedDict(cfg, validation_dict, br) ==
  [batch_request |-> [cls |-> br.cls, req |-> br.req],
   expectation_suite_name |->
     Or(Get(validation_dict, "expectation_suite_name"), cfg.expectation_suite_name),
   action_list |-> get_updated_action_list(cfg.action_list, EntryActions(validation_dict)),
   evaluation_parameters |->
     nested_update(cfg.evaluation_parameters, EntryDict(validation_dict, "evaluation_parameters")),
   runtime_configuration |->
     nested_update(cfg.runtime_configuration, EntryDict(validation_dict, "runtime_configuration"))]

\* cfg is the run configuration as the call leaves it
Substituted(kind, message, val, cfg) == [kind |-> kind, message |-> message, val |-> val, cfg |-> cfg]

\* the run configuration after get_runtime_batch_request has returned br
AfterRequest(cfg, br) == [cfg EXCEPT !.batch_request = br.top]

\* get_substituted_validation_dict with a nested_update that writes the merged
\* mapping into its first argument, the run configuration's own
get_substituted_validation_dict_InPlace(cfg, validation_dict, clock) ==
  LET br == get_runtime_batch_request(cfg.batch_request, EntryRequest(validation_dict),
                                      FALSE, clock)
      val == SubstitutedDict(cfg, validation_dict, br)
      after == [AfterRequest(cfg, br) EXCEPT
                  !.evaluation_parameters = val.evaluation_parameters,
                  !.runtime_configuration = val.runtime_configuration]
  IN IF br.kind \notin {"ok", "None"}
       THEN Substituted(br.kind, "", NoEntry, AfterRequest(cfg, br))
       ELSE IF validate_validation_dict(val) # ""
         THEN Substituted("CheckpointError", validate_validation_dict(val), NoEntry, after)
         ELSE Substituted("ok", "", val, after)

\* get_substituted_validation_dict without the call of line 310
get_substituted_validation_dict_Unvalidated(cfg, validation_dict, clock) ==
  LET br == get_runtime_batch_request(cfg.batch_request, EntryRequest(validation_dict),
                                      FALSE, clock)
  IN IF br.kind \notin {"ok", "None"}
       THEN Substituted(br.kind, "", NoEntry, AfterRequest(cfg, br))
       ELSE Substituted("ok", "", SubstitutedDict(cfg, validation_dict, br), AfterRequest(cfg, br))

\* lines 281-311: kind is "ok" (the substituted dict val is returned) or the
\* class of the exception raised.  ge_cloud_mode is not passed on (line 285):
\* get_runtime_batch_request runs with its default, False
get_substituted_validation_dict(cfg, validation_dict, clock) ==
  LET br == get_runtime_batch_request(cfg.batch_request, EntryRequest(validation_dict),
                                      FALSE, clock)
      val == SubstitutedDict(cfg, validation_dict, br)
  IN IF br.kind \notin {"ok", "None"}
       THEN Substituted(br.kind, "", NoEntry, AfterRequest(cfg, br))
       ELSE IF validate_validation_dict(val) # ""
         THEN Substituted("CheckpointError", validate_validation_dict(val), NoEntry,
                          AfterRequest(cfg, br))
         ELSE Substituted("ok", "", val, AfterRequest(cfg, br))

---------------------------------------------------------------------------
(* One checkpoint run: Merged -> [Resolved -> Executed -> ActionsDispatched]* *)
(* -> Aggregated, the entries taken strictly one after another in list order *)

StoreAction == [name |-> "store_validation_result", action |-> "StoreValidationResultAction"]
NotifyAction == [name |-> "send_slack_notification", action |-> "SlackNotificationAction"]

RuntimeTop ==
  Some([runtime_parameters |-> Dict([batch_data |-> "df1"]),
        batch_identifiers |-> Dict([default_identifier_name |-> "x"])])

RunConfigs ==
  [batch_request : {NoneMap, RuntimeTop, C5Top},
   expectation_suite_name : {Nul, Str(""), Str("s1")},
   action_list : {<<>>, <<StoreAction>>},
   evaluation_parameters : {Nul},
   runtime_configuration : {Dict([result_format |-> "BASIC"])}]

EntryValues ==
  [batch_request |-> {Dict(C5Entry.m), Dict([data_asset_name |-> Str("a1")])},
   expectation_suite_name |-> {Str("s2")},
   action_list |-> {Lst(<<NotifyAction>>)}]

AllEntryValues == UNION {EntryValues[key] : key \in DOMAIN EntryValues}

RunEntries ==
  UNION {{m \in [D -> AllEntryValues] : \A key \in D : m[key] \in EntryValues[key]} :
           D \in SUBSET DOMAIN EntryValues}

SeqsUpTo(S, n) == UNION {[1..len -> S] : len \in 0..n}

\* a run without a validations list has one implicit entry, the empty dict
EntriesOf(q) == IF Len(q) = 0 THEN <<EmptyMap>> ELSE q

InitRun ==
  /\ IdleResolve
  /\ IdleToolkit
  /\ cloud = FALSE
  /\ sent = <<>>
  /\ config \in RunConfigs
  /\ validations \in SeqsUpTo(RunEntries, MaxValidations)
  /\ idx = 1
  /\ phase = "Merged"
  /\ current = NoEntry
  /\ executed = {}
  /\ dispatched = {}
  /\ failure = NoFailure

ResolveEntry ==
  /\ phase \in {"Merged", "ActionsDispatched"}
  /\ idx <= Len(EntriesOf(validations))
  /\ LET r == get_substituted_validation_dict(config, EntriesOf(validations)[idx], now)
     IN /\ config' = r.cfg
        /\ IF r.kind = "ok"
             THEN /\ phase' = "Resolved"
                  /\ current' = r.val
                  /\ UNCHANGED failure
             ELSE /\ phase' = "Aborted"
                  /\ failure' = [at |-> idx, kind |-> r.kind, message |-> r.message]
                  /\ UNCHANGED current
  /\ UNCHANGED <<resolveVars, toolkitVars, cloud, sent, validations, idx, executed, dispatched>>

ExecuteEntry ==
  /\ phase = "Resolved"
  /\ executed' = executed \cup {idx}
  /\ phase' = "Executed"
  /\ UNCHANGED <<resolveVars, toolkitVars, cloud, sent, config, validations, idx, current, dispatched, failure>>

DispatchActions ==
  /\ phase = "Executed"
  /\ dispatched' = dispatched \cup {idx}
  /\ phase' = "ActionsDispatched"
  /\ idx' = idx + 1
  /\ UNCHANGED <<resolveVars, toolkitVars, cloud, sent, config, validations, current, executed, failure>>

Aggregate ==
  /\ phase = "ActionsDispatched"
  /\ idx > Len(EntriesOf(validations))
  /\ phase' = "Aggregated"
  /\ UNCHANGED <<resolveVars, toolkitVars, cloud, sent, config, validations, idx, current, executed,
                 dispatched, failure>>

NextRun == ResolveEntry \/ ExecuteEntry \/ DispatchActions \/ Aggregate

SpecRun == InitRun /\ [][NextRun]_vars

---------------------------------------------------------------------------
(* Claims about the resolution of validation entries and the run (SpecRun) *)

\* the three requirements on entry i, read off the run's inputs
EntryHasRequest(i) ==
  config.batch_request.some \/ Get(EntriesOf(validations)[i], "batch_request").k = "dict"

EntrySuite(i) ==
  IF "expectation_suite_name" \in DOMAIN EntriesOf(validations)[i]
       /\ EntriesOf(validations)[i]["expectation_suite_name"].s # ""
    THEN EntriesOf(validations)[i]["expectation_suite_name"].s
    ELSE config.expectation_suite_name.s

EntryHasActions(i) ==
  Len(config.action_list) > 0 \/ "action_list" \in DOMAIN EntriesOf(validations)[i]

\* no key is given by both the top-level request and the request of entry i
EntryRequestResolves(i) ==
  DOMAIN OrEmpty(config.batch_request)
    \cap DOMAIN OrEmpty(EntryRequest(EntriesOf(validations)[i])) = {}

ExpectedMessage(i) ==
  IF ~EntryHasRequest(i) THEN "validation batch_request cannot be None"
  ELSE IF EntrySuite(i) = "" THEN "validation expectation_suite_name must be specified"
  ELSE IF ~EntryHasActions(i) THEN "validation action_list cannot be empty"
  ELSE ""

---------------------------------------------------------------------------
(* checkpoint/toolkit.py: the checkpoint store and the calls made on it *)

\* an int or float
Num(x) == [k |-> "num", s |-> x, d |-> NoDict]

\* the keys of the dict add_checkpoint builds from its arguments (lines 70-94)
AddKeys ==
  {"name", "config_version", "template_name", "module_name", "class_name",
   "run_name_template", "expectation_suite_name", "batch_request", "action_list",
   "evaluation_parameters", "runtime_configuration", "validations", "profilers",
   "validation_operator_name", "batches", "site_names", "slack_webhook",
   "notify_on", "notify_with", "ge_cloud_id", "expectation_suite_ge_cloud_id"}

\* the keys of checkpoint_config_from_call_args (lines 309-324)
CallArgKeys ==
  {"template_name", "run_name_template", "expectation_suite_name", "batch_request",
   "action_list", "evaluation_parameters", "runtime_configuration", "validations",
   "profilers", "run_id", "run_name", "run_time", "result_format",
   "expectation_suite_ge_cloud_id"}

\* the attribute set of CheckpointConfig; the last two are those of a legacy
\* configuration (toolkit.py lines 54-56, 177)
CheckpointConfigFields ==
  {"name", "config_version", "template_name", "module_name", "class_name",
   "run_name_template", "expectation_suite_name", "batch_request", "action_list",
   "evaluation_parameters", "runtime_configuration", "validations", "profilers",
   "ge_cloud_id", "expectation_suite_ge_cloud_id",
   "validation_operator_name", "batches"}

\* filter_properties_dict(properties, clean_falsy=True): the top-level keys
\* with a falsy value are dropped, numbers are kept
CleanFalsy(properties) ==
  [key \in {x \in DOMAIN properties : ~Falsy(properties[x])} |-> properties[key]]

\* CheckpointConfig(**config).to_json_dict(): the serializable form, a flat
\* mapping of the configuration's own fields
to_json_dict(cfg) == [key \in DOMAIN cfg \cap CheckpointConfigFields |-> cfg[key]]

\* d.get("batch_request") is not None
\*   and d["batch_request"].get("runtime_parameters") is not None
\*   and d["batch_request"]["runtime_parameters"].get("batch_data") is not None
CarriesBatchData(d) ==
  /\ Get(d, "batch_request").k = "dict"
  /\ HasBatchData(d["batch_request"].d)

\* the entries of checkpoint_config["validations"]
ValidationsOf(cfg) ==
  IF Get(cfg, "validations").k = "list" THEN cfg["validations"].d ELSE <<>>

\* lines 96-116: TRUE when InvalidConfigError is raised.  The top-level
\* batch_request is looked at only when validations is None (elif)
BatchDataFound(checkpoint_config) ==
  IF ~IsNone(Get(checkpoint_config, "validations"))
    THEN \E i \in 1..Len(ValidationsOf(checkpoint_config)) :
           CarriesBatchData(ValidationsOf(checkpoint_config)[i])
    ELSE CarriesBatchData(checkpoint_config)

ConfigurationIdentifier(name) == [cls |-> "ConfigurationIdentifier", id |-> name]
GeCloudIdentifier(ge_cloud_id) == [cls |-> "GeCloudIdentifier", id |-> ge_cloud_id]

\* lines 133-140
AddKey(ge_cloud_mode, checkpoint_config) ==
  IF ge_cloud_mode
    THEN GeCloudIdentifier(Get(checkpoint_config, "ge_cloud_id"))
    ELSE ConfigurationIdentifier(Get(checkpoint_config, "name"))

Added(kind, wrote, out, st) == [kind |-> kind, wrote |-> wrote, out |-> out, store |-> st]

\* add_checkpoint without the filter of lines 118-120
add_checkpoint_Unfiltered(st, ge_cloud_mode, args) ==
  LET checkpoint_config == [key \in AddKeys |-> Get(args, key)]
      value == to_json_dict(checkpoint_config)
  IN IF BatchDataFound(checkpoint_config)
       THEN Added("InvalidConfigError", FALSE, EmptyMap, st)
       ELSE Added("ok", TRUE, value, With(st, AddKey(ge_cloud_mode, checkpoint_config), value))

\* lines 36-147: args holds the keyword arguments given, the others default
\* to None
add_checkpoint(st, ge_cloud_mode, args) ==
  LET checkpoint_config == [key \in AddKeys |-> Get(args, key)]
      value == to_json_dict(CleanFalsy(checkpoint_config))
      key == AddKey(ge_cloud_mode, checkpoint_config)
  IN IF BatchDataFound(checkpoint_config)
       THEN Added("InvalidConfigError", FALSE, EmptyMap, st)
       ELSE Added("ok", TRUE, value, With(st, key, value))

\* lines 156-163 and 224-229
LookupKey(name, ge_cloud_id) ==
  IF ~Falsy(ge_cloud_id) THEN GeCloudIdentifier(ge_cloud_id)
                         ELSE ConfigurationIdentifier(name)

\* lines 166-169 and 233-236: the message reads key.configuration_key, which
\* only a ConfigurationIdentifier has
NotFound(key) ==
  IF key.cls = "ConfigurationIdentifier" THEN "CheckpointNotFoundError"
                                         ELSE "AttributeError"

\* lines 176-194 with the two keys asked of every entry of batches
LegacyBatchesOk_EachEntry(json) ==
  /\ "batches" \in DOMAIN json
  /\ json["batches"].k = "list"
  /\ \A i \in 1..Len(json["batches"].d) :
       {"batch_kwargs", "expectation_suite_names"} \subseteq DOMAIN json["batches"].d[i]

\* lines 176-194
LegacyBatchesOk(json) ==
  /\ "batches" \in DOMAIN json
  /\ json["batches"].k = "list"
  /\ \/ Len(json["batches"].d) = 0
     \/ {"batch_kwargs", "expectation_suite_names"} \subseteq
          UNION {DOMAIN json["batches"].d[i] : i \in 1..Len(json["batches"].d)}

\* the checkpoint schema accepts the stored payload: config_version, when
\* given, is a number
SchemaValid(cfg) == Get(cfg, "config_version").k \in {"null", "num"}

Got(kind, cfg) == [kind |-> kind, config |-> cfg]

\* lines 150-214: the configuration the checkpoint is instantiated from
get_checkpoint(st, name, ge_cloud_id) ==
  LET key == LookupKey(name, ge_cloud_id)
      json == to_json_dict(st[key])
  IN IF key \notin DOMAIN st
       THEN Got(NotFound(key), EmptyMap)
     ELSE IF ~SchemaValid(st[key])
       THEN Got("InvalidCheckpointConfigError", EmptyMap)
     ELSE IF IsNone(Get(st[key], "config_version")) /\ ~LegacyBatchesOk(json)
       THEN Got("CheckpointError", EmptyMap)
     ELSE Got("ok", CleanFalsy(IF ~Falsy(name) THEN With(json, "name", name) ELSE json))

Deleted(kind, st) == [kind |-> kind, store |-> st]

\* lines 217-236
delete_checkpoint(st, name, ge_cloud_id) ==
  LET key == LookupKey(name, ge_cloud_id)
  IN IF Falsy(name) = Falsy(ge_cloud_id)
       THEN Deleted("AssertionError", st)
     ELSE IF key \notin DOMAIN st
       THEN Deleted(NotFound(key), st)
     ELSE Deleted("ok", Without(st, key))

\* checkpoint_store.list_keys(): the keys of the store, each once, in an order
\* the store chooses
list_keys(st) ==
  {keys \in [1..Cardinality(DOMAIN st) -> DOMAIN st] : \A key \in DOMAIN st : \E i \in DOMAIN keys : keys[i] = key}

\* lines 26-33 with the cloud branch taken in either mode
list_checkpoints_KeysOnly(keys, ge_cloud_mode) == keys

\* lines 26-33: the keys in cloud mode, their configuration_key otherwise
list_checkpoints(keys, ge_cloud_mode) ==
  IF ge_cloud_mode THEN keys ELSE [i \in DOMAIN keys |-> keys[i].id]

---------------------------------------------------------------------------
(* checkpoint/toolkit.py: run_checkpoint *)

\* lines 298-307 with the stored result_format taken first
ResultFormat_StoredFirst(result_format, checkpoint_config_from_store) ==
  LET stored == Get(checkpoint_config_from_store, "runtime_configuration")
      given == IF stored.k = "dict" /\ "result_format" \in DOMAIN stored.d
                 THEN Str(stored.d["result_format"])
                 ELSE result_format
  IN IF IsNone(given) THEN Dict([result_format |-> "SUMMARY"]) ELSE given

\* lines 298-307: the result_format put among the call arguments
ResultFormat(result_format, checkpoint_config_from_store) ==
  LET stored == Get(checkpoint_config_from_store, "runtime_configuration")
      given == IF stored.k = "dict" /\ "result_format" \in DOMAIN stored.d
                 THEN Or(result_format, Str(stored.d["result_format"]))
                 ELSE result_format
  IN IF IsNone(given) THEN Dict([result_format |-> "SUMMARY"]) ELSE given

\* lines 309-324: every key is present, None when the argument was not given
CallArgs(args, from_store) ==
  [key \in CallArgKeys |->
     IF key = "result_format" THEN ResultFormat(Get(args, key), from_store)
                              ELSE Get(args, key)]

\* a merge in which a call argument of None leaves the stored value in place
MergeCallArgs_KeepStored(from_store, from_call_args) ==
  [key \in CallArgKeys |->
     IF IsNone(from_call_args[key]) THEN Get(from_store, key) ELSE from_call_args[key]]

\* lines 326-331: the stored keys that are call-argument keys, then update()
MergeCallArgs(from_store, from_call_args) ==
  Update([key \in DOMAIN from_store \cap CallArgKeys |-> from_store[key]], from_call_args)

\* val["batch_request"]["runtime_parameters"].pop("batch_data")
PopEntry(val) == With(val, "batch_request", Dict(PopBatchData(val["batch_request"].d)))

\* lines 335-345: the payloads popped from the entries that carry one, in order
BatchDataList(vals) ==
  LET carriers == SelectSeq(vals, CarriesBatchData)
  IN [i \in 1..Len(carriers) |-> BatchDataOf(carriers[i]["batch_request"].d)]

\* lines 333-356: the mapping without its payloads
PopAll(checkpoint_config) ==
  IF ~IsNone(Get(checkpoint_config, "validations"))
    THEN With(checkpoint_config, "validations",
              Lst([i \in 1..Len(ValidationsOf(checkpoint_config)) |->
                     IF CarriesBatchData(ValidationsOf(checkpoint_config)[i])
                       THEN PopEntry(ValidationsOf(checkpoint_config)[i])
                       ELSE ValidationsOf(checkpoint_config)[i]]))
  ELSE IF CarriesBatchData(checkpoint_config)
    THEN PopEntry(checkpoint_config)
  ELSE checkpoint_config

\* val["batch_request"]["runtime_parameters"] can be subscripted
HasRuntimeParameters(val) ==
  /\ Get(val, "batch_request").k = "dict"
  /\ Get(val["batch_request"].d, "runtime_parameters").k = "dict"

\* lines 361-365 at one index: "" when the assignment is made
ReinjectError(vals, batch_data_list, i) ==
  IF i > Len(batch_data_list) THEN "IndexError"
  ELSE IF "batch_request" \notin DOMAIN vals[i] THEN "KeyError"
  ELSE IF vals[i]["batch_request"].k # "dict" THEN "TypeError"
  ELSE IF "runtime_parameters" \notin DOMAIN vals[i]["batch_request"].d THEN "KeyError"
  ELSE IF ~HasRuntimeParameters(vals[i]) THEN "TypeError"
  ELSE ""

\* val["batch_request"]["runtime_parameters"]["batch_data"] = x
PutEntry(val, x) == With(val, "batch_request", Dict(PutBatchData(val["batch_request"].d, x)))

Reinjected(kind, cfg) == [kind |-> kind, config |-> cfg]

\* lines 359-369: the payloads are put back by position in the filtered list
Reinject(filtered, batch_data_list, batch_data) ==
  LET vals == ValidationsOf(filtered)
      bad == {i \in 1..Len(vals) : ReinjectError(vals, batch_data_list, i) # ""}
      first == CHOOSE i \in bad : \A j \in bad : i <= j
  IN IF Len(batch_data_list) > 0
       THEN IF bad # {}
              THEN Reinjected(ReinjectError(vals, batch_data_list, first), EmptyMap)
              ELSE Reinjected("ok", With(filtered, "validations",
                     Lst([i \in 1..Len(vals) |-> PutEntry(vals[i], batch_data_list[i])])))
     ELSE IF batch_data # "None"
       THEN Reinjected("ok", PutEntry(filtered, batch_data))
     ELSE Reinjected("ok", filtered)

\* lines 332-369, non-cloud mode
PopFilterReinject(checkpoint_config) ==
  Reinject(CleanFalsy(PopAll(checkpoint_config)),
           IF ~IsNone(Get(checkpoint_config, "validations"))
             THEN BatchDataList(ValidationsOf(checkpoint_config)) ELSE <<>>,
           IF IsNone(Get(checkpoint_config, "validations")) /\ CarriesBatchData(checkpoint_config)
             THEN BatchDataOf(checkpoint_config["batch_request"].d) ELSE "None")

\* store is the checkpoint store as the call leaves it
Ran(kind, out, st) == [kind |-> kind, out |-> out, store |-> st]

\* the stored configuration with result_format popped from its
\* runtime_configuration
PopStoredFormat(cfg) ==
  IF Get(cfg, "runtime_configuration").k = "dict"
    THEN With(cfg, "runtime_configuration",
              Dict(Without(cfg["runtime_configuration"].d, "result_format")))
    ELSE cfg

\* run_checkpoint with the pop of line 304 acting on the stored configuration
\* itself
run_checkpoint_PopsStored(st, ge_cloud_mode, name, ge_cloud_id, args, kwargs) ==
  LET checkpoint == get_checkpoint(st, name, ge_cloud_id)
      from_store == checkpoint.config
      merged == MergeCallArgs(from_store, CallArgs(args, from_store))
      final == IF ge_cloud_mode THEN Reinjected("ok", merged) ELSE PopFilterReinject(merged)
      key == LookupKey(name, ge_cloud_id)
      popped == IF IsNone(Get(args, "result_format")) THEN With(st, key, PopStoredFormat(st[key]))
                                                      ELSE st
  IN IF checkpoint.kind # "ok" THEN Ran(checkpoint.kind, EmptyMap, st)
     ELSE IF final.kind # "ok" THEN Ran(final.kind, EmptyMap, popped)
     ELSE IF DuplicateKeywords(final.config, kwargs) # {} THEN Ran("TypeError", EmptyMap, popped)
     ELSE Ran("ok", Update(final.config, kwargs), popped)

\* lines 239-373: out is the keyword mapping checkpoint.run is called with; the
\* store is read once, by get_checkpoint, and neither set nor remove_key is
\* called
run_checkpoint(st, ge_cloud_mode, name, ge_cloud_id, args, kwargs) ==
  LET checkpoint == get_checkpoint(st, name, ge_cloud_id)
      from_store == checkpoint.config
      merged == MergeCallArgs(from_store, CallArgs(args, from_store))
      final == IF ge_cloud_mode THEN Reinjected("ok", merged) ELSE PopFilterReinject(merged)
  IN IF checkpoint.kind # "ok" THEN Ran(checkpoint.kind, EmptyMap, st)
     ELSE IF final.kind # "ok" THEN Ran(final.kind, EmptyMap, st)
     ELSE IF DuplicateKeywords(final.config, kwargs) # {} THEN Ran("TypeError", EmptyMap, st)
     ELSE Ran("ok", Update(final.config, kwargs), st)

---------------------------------------------------------------------------
(* Calls of the toolkit on one checkpoint store *)

PayloadRequest == Dict(RuntimeTop.m)

NoRequestEntry == [expectation_suite_name |-> Str("s2")]
PayloadEntry == [batch_request |-> PayloadRequest]

ValidationsArgs ==
  {Nul} \cup {Lst(q) : q \in SeqsUpTo({NoRequestEntry, PayloadEntry}, MaxValidations)}

AddArgs ==
  [name : {Str("cp1")},
   config_version : {Num("1")},
   ge_cloud_id : {Nul, Str("id1")},
   expectation_suite_name : {Nul, Str("s1")},
   batch_request : {Nul, PayloadRequest},
   runtime_configuration : {Nul, Dict([result_format |-> "BASIC"])},
   validations : ValidationsArgs]

RunArgs ==
  [expectation_suite_name : {Nul, Str("s2")},
   batch_request : {Nul, PayloadRequest},
   validations : ValidationsArgs,
   result_format : {Nul, Str("COMPLETE")}]

Kwargs == {EmptyMap, [extra |-> Str("x")]}

Lookups ==
  {[name |-> Str("cp1"), ge_cloud_id |-> Nul], [name |-> Str("cp2"), ge_cloud_id |-> Nul],
   [name |-> Nul, ge_cloud_id |-> Str("id1")], [name |-> Nul, ge_cloud_id |-> Nul],
   [name |-> Str("cp1"), ge_cloud_id |-> Str("id1")]}

\* the record of call number n
Call(n, op, kind) == [NoCall EXCEPT !.n = n, !.op = op, !.kind = kind]

StoredAt(st, key) == IF key \in DOMAIN st THEN Some(st[key]) ELSE NoneMap

InitToolkit ==
  /\ IdleResolve
  /\ IdleRun
  /\ cloud \in BOOLEAN
  /\ sent = <<>>
  /\ store = [x \in {} |-> EmptyMap]
  /\ last = NoCall

\* a cloud-backed checkpoint is added under its cloud id, a local one has none
AddCheckpoint ==
  \E args \in AddArgs :
    /\ last.n < MaxToolkitCalls
    /\ IsNone(args.ge_cloud_id) = ~cloud
    /\ LET r == add_checkpoint(store, cloud, args)
       IN /\ store' = r.store
          /\ last' = [Call(last.n + 1, "add", r.kind) EXCEPT !.arg = args,
                                    !.wrote = r.wrote, !.out = r.out]
    /\ UNCHANGED <<resolveVars, runVars, cloud, sent>>

GetCheckpoint ==
  \E look \in Lookups :
    /\ last.n < MaxToolkitCalls
    /\ LET r == get_checkpoint(store, look.name, look.ge_cloud_id)
       IN last' = [Call(last.n + 1, "get", r.kind) EXCEPT !.arg = look,
                     !.stored = StoredAt(store, LookupKey(look.name, look.ge_cloud_id)),
                     !.out = r.config]
    /\ UNCHANGED <<resolveVars, runVars, cloud, sent, store>>

DeleteCheckpoint ==
  \E look \in Lookups :
    /\ last.n < MaxToolkitCalls
    /\ LET r == delete_checkpoint(store, look.name, look.ge_cloud_id)
       IN /\ store' = r.store
          /\ last' = [Call(last.n + 1, "delete", r.kind) EXCEPT !.arg = look,
                        !.stored = StoredAt(store, LookupKey(look.name, look.ge_cloud_id))]
    /\ UNCHANGED <<resolveVars, runVars, cloud, sent>>

ListCheckpoints ==
  /\ last.n < MaxToolkitCalls
  /\ \E keys \in list_keys(store) :
       last' = [Call(last.n + 1, "list", "ok") EXCEPT
                            !.listed = list_checkpoints(keys, cloud)]
  /\ UNCHANGED <<resolveVars, runVars, cloud, sent, store>>

RunCheckpoint ==
  \E look \in Lookups, args \in RunArgs, kwargs \in Kwargs :
    /\ last.n < MaxToolkitCalls
    /\ LET r == run_checkpoint(store, cloud, look.name, look.ge_cloud_id, args, kwargs)
       IN /\ store' = r.store
          /\ last' = [Call(last.n + 1, "run", r.kind) EXCEPT
                        !.arg = Update(look, args), !.kwargs = kwargs,
                        !.stored = StoredAt(store, LookupKey(look.name, look.ge_cloud_id)),
                        !.out = r.out]
    /\ UNCHANGED <<resolveVars, runVars, cloud, sent>>

NextToolkit ==
  \/ AddCheckpoint
  \/ GetCheckpoint
  \/ DeleteCheckpoint
  \/ ListCheckpoints
  \/ RunCheckpoint

SpecToolkit == InitToolkit /\ [][NextToolkit]_vars

---------------------------------------------------------------------------
(* run_checkpoint as a function of the stored configuration and its arguments *)

\* the stores add_checkpoint leaves behind, and the empty store
StoresAfterAdd(ge_cloud_mode) ==
  {[x \in {} |-> EmptyMap]} \cup
  {add_checkpoint([x \in {} |-> EmptyMap], ge_cloud_mode, args).store :
     args \in {a \in AddArgs : IsNone(a.ge_cloud_id) = ~ge_cloud_mode}}

\* a stored configuration file edited by hand into one the schema rejects
HandEdited(cfg) == With(cfg, "config_version", Str("one"))

\* the stores a call can find: as add_checkpoint left them, or edited since
StoresOnDisk(ge_cloud_mode) ==
  StoresAfterAdd(ge_cloud_mode) \cup
  {[key \in DOMAIN st |-> HandEdited(st[key])] : st \in StoresAfterAdd(ge_cloud_mode)}

\* last holds the arguments of the call to be made
InitMerge ==
  /\ IdleResolve
  /\ IdleRun
  /\ cloud \in BOOLEAN
  /\ sent = <<>>
  /\ store \in StoresOnDisk(cloud)
  /\ \E look \in Lookups, args \in RunArgs, kwargs \in Kwargs :
       last = [NoCall EXCEPT !.arg = Update(look, args), !.kwargs = kwargs]

RunGiven ==
  /\ last.op = ""
  /\ LET r == run_checkpoint(store, cloud, last.arg["name"], last.arg["ge_cloud_id"],
                             last.arg, last.kwargs)
     IN /\ store' = r.store
        /\ last' = [last EXCEPT !.n = 1, !.op = "run", !.kind = r.kind, !.out = r.out,
                      !.stored = StoredAt(store, LookupKey(last.arg["name"], last.arg["ge_cloud_id"]))]
  /\ UNCHANGED <<resolveVars, runVars, cloud, sent>>

GetGiven ==
  /\ last.op = ""
  /\ LET r == get_checkpoint(store, last.arg["name"], last.arg["ge_cloud_id"])
     IN last' = [last EXCEPT !.n = 1, !.op = "get", !.kind = r.kind, !.out = r.config,
                   !.stored = StoredAt(store, LookupKey(last.arg["name"], last.arg["ge_cloud_id"]))]
  /\ UNCHANGED <<resolveVars, runVars, cloud, sent, store>>

NextMerge == RunGiven \/ GetGiven

SpecMerge == InitMerge /\ [][NextMerge]_vars

---------------------------------------------------------------------------
(* Claims about the toolkit: C1 and C2 under SpecToolkit, C6 under SpecMerge *)

\* a payload at top level or in any validations entry
HoldsBatchData(cfg) ==
  \/ CarriesBatchData(cfg)
  \/ \E i \in 1..Len(ValidationsOf(cfg)) : CarriesBatchData(ValidationsOf(cfg)[i])

\* C1: add_checkpoint raises InvalidConfigError and writes nothing to the
\* store whenever the top-level batch_request or the batch_request of any
\* validations entry carries a non-null runtime_parameters.batch_data, whether
\* validations is absent, an empty list or a non-empty list.
C1_PayloadAlwaysRejected ==
  (last.op = "add" /\ HoldsBatchData(last.arg)) =>
    (last.kind = "InvalidConfigError" /\ ~last.wrote)

C6_StoredValueWhenNotSupplied ==
  (last.op = "run" /\ last.kind = "ok") =>
    \A key \in CallArgKeys :
      Get(last.out, key) = IF ~IsNone(Get(last.arg, key)) THEN Get(last.arg, key)
                                                           ELSE Get(last.stored.m, key)

\* the result_format of a run: the call-time value, else the stored
\* runtime_configuration.result_format, else the SUMMARY default
ExpectedResultFormat ==
  LET stored == Get(last.stored.m, "runtime_configuration")
  IN IF ~Falsy(Get(last.arg, "result_format")) THEN last.arg["result_format"]
     ELSE IF stored.k = "dict" /\ "result_format" \in DOMAIN stored.d
       THEN Str(stored.d["result_format"])
     ELSE IF IsNone(Get(last.arg, "result_format")) THEN Dict([result_format |-> "SUMMARY"])
     ELSE IF cloud THEN last.arg["result_format"]
     ELSE Nul

\* C6, amended: for each key of the allow-list other than result_format the
\* mapping handed to checkpoint.run holds the call-time value when one is
\* supplied (non-null; in non-cloud mode non-empty), and the stored value is
\* never carried over: without a call-time value the key is null in cloud mode
\* and absent in non-cloud mode.  result_format is the call-time value, else the
\* stored runtime_configuration.result_format, else the SUMMARY default.
C6_CallArgsReplaceStored ==
  (last.op = "run" /\ last.kind = "ok") =>
    /\ \A key \in CallArgKeys \ {"result_format"} :
         IF cloud
           THEN key \in DOMAIN last.out /\ last.out[key] = Get(last.arg, key)
           ELSE IF Falsy(Get(last.arg, key))
                  THEN key \notin DOMAIN last.out
                  ELSE key \in DOMAIN last.out /\ last.out[key] = last.arg[key]
    /\ Get(last.out, "result_format") = ExpectedResultFormat

\* a run that succeeded on a stored configuration naming suite "s1", without a
\* call-time suite: the suite is not among the run arguments
C6_Witness ==
  /\ last.op = "run" /\ last.kind = "ok" /\ ~cloud
  /\ last.stored.some
  /\ Get(last.stored.m, "expectation_suite_name") = Str("s1")
  /\ IsNone(Get(last.arg, "expectation_suite_name"))
  /\ "expectation_suite_name" \notin DOMAIN last.out
  /\ Get(last.out, "result_format") = Str("BASIC")

---------------------------------------------------------------------------
(* The action list of one validation result, dispatched in declared order *)

OpsgenieAction == [name |-> "send_opsgenie_alert", action |-> "OpsgenieAlertAction"]
TeamsAction == [name |-> "send_teams_notification", action |-> "MicrosoftTeamsNotificationAction"]

NotifyClasses ==
  {"SlackNotificationAction", "OpsgenieAlertAction", "MicrosoftTeamsNotificationAction"}

ActionLists ==
  SeqsUpTo({NotifyAction, OpsgenieAction, TeamsAction, StoreAction}, MaxActions) \ {<<>>}

\* the sender a notification action calls with the validation result
RunNotification(action, post) ==
  IF action.action = "SlackNotificationAction"
    THEN Sent("slack", "https://hooks", post.exc = "" /\ post.status = HTTP_OK,
              send_slack_notification(post))
  ELSE IF action.action = "MicrosoftTeamsNotificationAction"
    THEN Sent("teams", "webhook", post.exc = "" /\ post.status = HTTP_OK,
              send_microsoft_teams_notifications(post))
  ELSE Sent("opsgenie", "None", post.exc = "" /\ post.status = HTTP_ACCEPTED,
            send_opsgenie_alert(post))

\* the outcome of a store action that persisted the result
Stored == Sent("store", "", TRUE, Sender("", "stored"))

InitDispatch ==
  /\ IdleResolve
  /\ IdleToolkit
  /\ cloud = FALSE
  /\ sent = <<>>
  /\ config \in [batch_request : {NoneMap}, expectation_suite_name : {Str("s1")},
                 action_list : ActionLists,
                 evaluation_parameters : {Nul}, runtime_configuration : {Nul}]
  /\ validations = <<>>
  /\ idx = 1
  /\ phase = "Dispatching"
  /\ current = NoEntry
  /\ executed = {}
  /\ dispatched = {}
  /\ failure = NoFailure

\* a notification action: whatever its sender returns is the action's outcome;
\* an exception escaping the sender ends the run
RunNotifyAction ==
  /\ phase = "Dispatching"
  /\ idx <= Len(config.action_list)
  /\ config.action_list[idx].action \in NotifyClasses
  /\ \E post \in PostOutcomes :
       LET outcome == RunNotification(config.action_list[idx], post)
       IN IF outcome.did.raised # ""
            THEN /\ phase' = "Failed"
                 /\ failure' = [at |-> idx, kind |-> outcome.did.raised, message |-> ""]
                 /\ UNCHANGED <<sent, idx>>
            ELSE /\ sent' = Append(sent, outcome)
                 /\ idx' = idx + 1
                 /\ UNCHANGED <<phase, failure>>
  /\ UNCHANGED <<resolveVars, toolkitVars, cloud, config, validations, current, executed, dispatched>>

\* a storage action: its failure propagates and ends the run
RunStoreAction ==
  /\ phase = "Dispatching"
  /\ idx <= Len(config.action_list)
  /\ config.action_list[idx].action = "StoreValidationResultAction"
  /\ \E persisted \in BOOLEAN :
       IF persisted
         THEN /\ sent' = Append(sent, Stored)
              /\ idx' = idx + 1
              /\ UNCHANGED <<phase, failure>>
         ELSE /\ phase' = "Failed"
              /\ failure' = [at |-> idx, kind |-> "StoreBackendError", message |-> ""]
              /\ UNCHANGED <<sent, idx>>
  /\ UNCHANGED <<resolveVars, toolkitVars, cloud, config, validations, current, executed, dispatched>>

CompleteDispatch ==
  /\ phase = "Dispatching"
  /\ idx > Len(config.action_list)
  /\ phase' = "Completed"
  /\ UNCHANGED <<resolveVars, toolkitVars, cloud, sent, config, validations, idx, current,
                 executed, dispatched, failure>>

NextDispatch == RunNotifyAction \/ RunStoreAction \/ CompleteDispatch

SpecDispatch == InitDispatch /\ [][NextDispatch]_vars

\* the sender name recorded for an action class
SenderOf(action) ==
  IF action.action = "SlackNotificationAction" THEN "slack"
  ELSE IF action.action = "OpsgenieAlertAction" THEN "opsgenie"
  ELSE IF action.action = "MicrosoftTeamsNotificationAction" THEN "teams"
  ELSE "store"

\* C12: with the action list dispatched in declared order, a notification
\* action whose delivery fails neither stops a later action from being
\* attempted nor fails the run: the outcomes recorded are those of the actions
\* in list order, the run fails only at a storage action, a completed run has
\* attempted every action, an undelivered Slack or Teams notification has no
\* success marker and a store action that ran is success-marked.
C12_NotifyFailureIsolated ==
  /\ Len(sent) = idx - 1
  /\ \A i \in 1..Len(sent) : sent[i].sender = SenderOf(config.action_list[i])
  /\ phase = "Failed" => config.action_list[failure.at].action \notin NotifyClasses
  /\ phase = "Completed" => Len(sent) = Len(config.action_list)
  /\ \A i \in 1..Len(sent) :
       /\ (sent[i].sender \in {"slack", "teams"} /\ ~sent[i].delivered) =>
            sent[i].did.ret = "None"
       /\ sent[i].sender = "store" => sent[i].did.ret = "stored"

\* [notify-slack (webhook unreachable), store-validation-result (succeeds)]
C12_Witness ==
  /\ phase = "Completed"
  /\ config.action_list = <<NotifyAction, StoreAction>>
  /\ Len(sent) = 2
  /\ sent[1].sender = "slack" /\ ~sent[1].delivered /\ sent[1].did.ret = "None"
  /\ sent[2] = Stored

\* C15: get_checkpoint and run_checkpoint raise CheckpointNotFoundError when
\* the requested name or cloud id is absent from the store and
\* InvalidCheckpointConfigError when the stored payload fails schema
\* validation; in both cases nothing is handed to checkpoint.run.
C15_LookupErrors ==
  last.op \in {"get", "run"} =>
    /\ ~last.stored.some =>
         (last.kind = "CheckpointNotFoundError" /\ last.out = EmptyMap)
    /\ (last.stored.some /\ ~SchemaValid(last.stored.m)) =>
         (last.kind = "InvalidCheckpointConfigError" /\ last.out = EmptyMap)

\* C16: get_checkpoint and delete_checkpoint address the store with exactly
\* one of name and ge_cloud_id: a call that supplies both, or neither, is
\* rejected before any store lookup or removal.
C16_ExactlyOneAddress ==
  (/\ last.op \in {"get", "delete"}
   /\ Falsy(last.arg["name"]) = Falsy(last.arg["ge_cloud_id"])) =>
    last.kind = "AssertionError"

---------------------------------------------------------------------------
(* data_context/store/util.py, and the round trip through the store *)

\* ConfigurationStore.set writes the serializable form of the configuration,
\* its falsy fields omitted
StoreWrite(configuration) == CleanFalsy(to_json_dict(configuration))

\* lines 57-73
save_config_to_store_backend(st, configuration_key, configuration) ==
  With(st, ConfigurationIdentifier(configuration_key), StoreWrite(configuration))

\* lines 76-91
load_config_from_store_backend(st, configuration_key) ==
  LET key == ConfigurationIdentifier(configuration_key)
  IN IF key \notin DOMAIN st THEN Got("InvalidKeyError", EmptyMap)
     ELSE IF ~SchemaValid(st[key]) THEN Got("InvalidBaseYamlConfigError", EmptyMap)
     ELSE Got("ok", st[key])

\* lines 112-124
save_checkpoint_config_to_store_backend(st, checkpoint_name, checkpoint_configuration) ==
  save_config_to_store_backend(st, checkpoint_name, checkpoint_configuration)

\* lines 127-145
load_checkpoint_config_from_store_backend(st, checkpoint_name) ==
  LET r == load_config_from_store_backend(st, checkpoint_name)
  IN IF r.kind = "InvalidBaseYamlConfigError"
       THEN Got("InvalidCheckpointConfigError", EmptyMap)
       ELSE r

\* the configurations saved: config_version defaults to None (line 42), the
\* legacy form
SaveArgs == AddArgs \cup {[args EXCEPT !.config_version = Nul] : args \in AddArgs}

\* last.arg holds the configuration to be saved
InitRoundTrip ==
  /\ IdleResolve
  /\ IdleRun
  /\ cloud \in BOOLEAN
  /\ sent = <<>>
  /\ store = [x \in {} |-> EmptyMap]
  /\ \E args \in SaveArgs :
       /\ IsNone(args.ge_cloud_id) = ~cloud
       /\ last = [NoCall EXCEPT !.arg = args]

SaveGiven ==
  /\ last.op = ""
  /\ LET r == add_checkpoint(store, cloud, last.arg)
     IN /\ store' = r.store
        /\ last' = [last EXCEPT !.n = 1, !.op = "add", !.kind = r.kind,
                                !.wrote = r.wrote, !.out = r.out]
  /\ UNCHANGED <<resolveVars, runVars, cloud, sent>>

\* the checkpoint is loaded by the key it was saved under: its name, or in
\* cloud mode its cloud id
LoadSaved ==
  /\ last.op = "add"
  /\ last.kind = "ok"
  /\ LET name == IF cloud THEN Nul ELSE last.arg["name"]
         r == get_checkpoint(store, name, last.arg["ge_cloud_id"])
     IN last' = [last EXCEPT !.n = 2, !.op = "get", !.kind = r.kind, !.out = r.config,
                   !.stored = StoredAt(store, LookupKey(name, last.arg["ge_cloud_id"]))]
  /\ UNCHANGED <<resolveVars, runVars, cloud, sent, store>>

SaveToBackend ==
  /\ last.op = ""
  /\ store' = save_checkpoint_config_to_store_backend(store, last.arg["name"].s, last.arg)
  /\ last' = [last EXCEPT !.n = 1, !.op = "save", !.kind = "ok", !.wrote = TRUE,
                          !.out = StoreWrite(last.arg)]
  /\ UNCHANGED <<resolveVars, runVars, cloud, sent>>

LoadFromBackend ==
  /\ last.op = "save"
  /\ LET r == load_checkpoint_config_from_store_backend(store, last.arg["name"].s)
     IN last' = [last EXCEPT !.n = 2, !.op = "load", !.kind = r.kind, !.out = r.config,
                   !.stored = StoredAt(store, ConfigurationIdentifier(last.arg["name"].s))]
  /\ UNCHANGED <<resolveVars, runVars, cloud, sent, store>>

NextRoundTrip == SaveGiven \/ LoadSaved \/ SaveToBackend \/ LoadFromBackend

SpecRoundTrip == InitRoundTrip /\ [][NextRoundTrip]_vars

\* two field values are equal; an omitted field and an empty one are the same
FieldEq(a, b) == (Falsy(a) /\ Falsy(b)) \/ a = b

\* the loaded configuration is the one written to the store, and equal field
\* by field to the configuration given
CameBack ==
  /\ last.kind = "ok"
  /\ last.stored.some
  /\ last.out = last.stored.m
  /\ \A field \in CheckpointConfigFields :
       FieldEq(Get(last.out, field), Get(last.arg, field))

---------------------------------------------------------------------------
(* run_checkpoint: the result_format of the run arguments *)

FormatArgs ==
  [expectation_suite_name : {Nul},
   batch_request : {Nul},
   validations : {Nul},
   result_format : {Nul, Str(""), Str("COMPLETE")}]

InitFormat ==
  /\ IdleResolve
  /\ IdleRun
  /\ cloud \in BOOLEAN
  /\ sent = <<>>
  /\ store \in StoresAfterAdd(cloud)
  /\ \E look \in Lookups, args \in FormatArgs :
       last = [NoCall EXCEPT !.arg = Update(look, args)]

NextFormat == RunGiven

SpecFormat == InitFormat /\ [][NextFormat]_vars

StoredResultFormat ==
  LET stored == Get(last.stored.m, "runtime_configuration")
  IN IF stored.k = "dict" /\ "result_format" \in DOMAIN stored.d
       THEN Str(stored.d["result_format"])
       ELSE Nul

\* C18 as stated: the result_format of the run arguments is the call-time
\* value whenever it is not None, else the stored
\* runtime_configuration.result_format, else the SUMMARY default.
C18_CallTimeWheneverGiven ==
  (last.op = "run" /\ last.kind = "ok") =>
    Get(last.out, "result_format") =
      IF ~IsNone(last.arg["result_format"]) THEN last.arg["result_format"]
      ELSE IF ~IsNone(StoredResultFormat) THEN StoredResultFormat
      ELSE Dict([result_format |-> "SUMMARY"])

\* C18: the result_format of the run arguments is the call-time value whenever
\* it is non-empty; when it is None it is the stored
\* runtime_configuration.result_format if there is one and the SUMMARY default
\* otherwise; an empty call-time value gives way to the stored one, and without
\* a stored one it is kept in cloud mode and dropped in non-cloud mode.
C18_ResultFormat ==
  (last.op = "run" /\ last.kind = "ok") =>
    /\ Get(last.out, "result_format") = ExpectedResultFormat
    /\ ~Falsy(last.arg["result_format"]) =>
         last.out["result_format"] = last.arg["result_format"]
    /\ (IsNone(last.arg["result_format"]) /\ IsNone(StoredResultFormat)) =>
         last.out["result_format"] = Dict([result_format |-> "SUMMARY"])

\* a call-time COMPLETE over a stored BASIC
C18_Witness ==
  /\ last.op = "run" /\ last.kind = "ok"
  /\ StoredResultFormat = Str("BASIC")
  /\ last.arg["result_format"] = Str("COMPLETE")
  /\ last.out["result_format"] = Str("COMPLETE")

---------------------------------------------------------------------------
(* run_checkpoint: the keys handed to checkpoint.run *)

\* C19: every key of the mapping run_checkpoint hands to checkpoint.run is a
\* key of the call-argument allow-list: stored fields outside it are dropped
\* and extra keyword arguments of the caller do not appear.
C19_OnlyAllowListKeys ==
  (last.op = "run" /\ last.kind = "ok") => DOMAIN last.out \subseteq CallArgKeys

---------------------------------------------------------------------------
(* run_checkpoint: what the falsy filter of line 357 is given *)

\* the stored configuration the call of last.arg finds
FoundForRun == get_checkpoint(store, last.arg["name"], last.arg["ge_cloud_id"])

\* lines 326-356: the properties argument of filter_properties_dict
FilterInput == PopAll(MergeCallArgs(FoundForRun.config, CallArgs(last.arg, FoundForRun.config)))

\* C20: in non-cloud mode the mapping run_checkpoint passes to the falsy
\* filter holds no batch_data payload, neither in the top-level batch_request
\* nor in the batch_request of a validations entry, whether or not a
\* validations list is present.
C20_NoPayloadIntoFilter ==
  (last.op = "run" /\ ~cloud /\ FoundForRun.kind = "ok") => ~HoldsBatchData(FilterInput)

---------------------------------------------------------------------------
(* run_checkpoint: falsy fields of the run arguments *)

\* C21: the mapping run_checkpoint hands to checkpoint.run has no top-level
\* field whose value is None, an empty list, an empty dict or an empty string,
\* in cloud mode as in non-cloud mode.
C21_NoFalsyField ==
  (last.op = "run" /\ last.kind = "ok") => \A key \in DOMAIN last.out : ~Falsy(last.out[key])

---------------------------------------------------------------------------
(* add_checkpoint and list_checkpoints in non-cloud mode *)

MaxListCalls == 3

ListNames == {Str("cp1"), Str("cp2")}

\* local checkpoints: plain ones, one with a suite, one whose top-level request
\* carries a payload and is refused
ListArgs ==
  [name : ListNames,
   config_version : {Num("1")},
   ge_cloud_id : {Nul},
   expectation_suite_name : {Nul, Str("s1")},
   batch_request : {Nul, PayloadRequest},
   runtime_configuration : {Nul},
   validations : {Nul}]

\* last.added holds the names of the successful add_checkpoint calls, in order
InitList ==
  /\ IdleResolve
  /\ IdleRun
  /\ cloud = FALSE
  /\ sent = <<>>
  /\ store = [x \in {} |-> EmptyMap]
  /\ last = NoCall

AddNamed ==
  \E args \in ListArgs :
    /\ last.n < MaxListCalls
    /\ LET r == add_checkpoint(store, cloud, args)
       IN /\ store' = r.store
          /\ last' = [Call(last.n + 1, "add", r.kind) EXCEPT !.arg = args,
                        !.wrote = r.wrote, !.out = r.out,
                        !.added = IF r.kind = "ok" THEN Append(last.added, args.name)
                                                   ELSE last.added]
    /\ UNCHANGED <<resolveVars, runVars, cloud, sent>>

ListAdded ==
  /\ last.n < MaxListCalls
  /\ \E keys \in list_keys(store) :
       last' = [Call(last.n + 1, "list", "ok") EXCEPT
                  !.listed = list_checkpoints(keys, cloud), !.added = last.added]
  /\ UNCHANGED <<resolveVars, runVars, cloud, sent, store>>

NextList == AddNamed \/ ListAdded

SpecList == InitList /\ [][NextList]_vars

\* C22: in non-cloud mode, after any sequence of successful add_checkpoint
\* calls, list_checkpoints returns the name of every checkpoint added, each
\* exactly once, and nothing else; a second add under a stored name replaces
\* the entry.
C22_ListedOnce ==
  last.op = "list" =>
    /\ {last.listed[i] : i \in DOMAIN last.listed} = {last.added[i] : i \in DOMAIN last.added}
    /\ \A i, j \in DOMAIN last.listed : last.listed[i] = last.listed[j] => i = j

\* "cp1" added twice and listed once
C22_Witness ==
  /\ last.op = "list"
  /\ last.added = <<Str("cp1"), Str("cp1")>>
  /\ last.listed = <<Str("cp1")>>

---------------------------------------------------------------------------
(* run_checkpoint: the payloads put back after the falsy filter *)

\* C23: in non-cloud mode run_checkpoint puts every payload it took out of
\* validations[i] back into validations[i], for every validations list, also
\* one in which only some entries carry a payload: the entries handed to
\* checkpoint.run are the entries given and no error is raised.
C23_PayloadsBackInPlace ==
  (/\ last.op = "run" /\ ~cloud /\ FoundForRun.kind = "ok"
   /\ last.arg["validations"].k = "list") =>
    /\ last.kind = "ok"
    /\ ValidationsOf(last.out) = last.arg["validations"].d

---------------------------------------------------------------------------
(* get_runtime_batch_request: the payload object *)

\* the optional mapping carries a payload
Supplies(x) == x.some /\ HasBatchData(x.m)

\* C24: when the entry-level or the top-level request carries a batch_data
\* payload, the request returned by get_runtime_batch_request holds that very
\* object, not a copy, under runtime_parameters.batch_data, and after the call,
\* returned or raised, the mapping that supplied it holds that object again.
C24_SamePayloadObject ==
  \A i \in DOMAIN calls :
    LET c == calls[i]
    IN /\ Supplies(c.entry0) =>
            /\ Supplies(c.out.entry) /\ BatchDataOf(c.out.entry.m) = BatchDataOf(c.entry0.m)
            /\ c.out.kind = "ok" =>
                 HasBatchData(c.out.req) /\ BatchDataOf(c.out.req) = BatchDataOf(c.entry0.m)
       /\ Supplies(c.top0) =>
            /\ Supplies(c.out.top) /\ BatchDataOf(c.out.top.m) = BatchDataOf(c.top0.m)
            /\ c.out.kind = "ok" =>
                 HasBatchData(c.out.req) /\ BatchDataOf(c.out.req) = BatchDataOf(c.top0.m)

\* a request returned for an entry that carries the payload
C24_Witness ==
  \E i \in DOMAIN calls :
    /\ Supplies(calls[i].entry0) /\ calls[i].out.kind = "ok"
    /\ BatchDataOf(calls[i].out.req) = "df1"
    /\ BatchDataOf(calls[i].out.entry.m) = "df1"

---------------------------------------------------------------------------
(* get_runtime_batch_request: the fields of the returned request *)

\* C25: the returned request has exactly the keys of the merged mapping that
\* are field names of the resolved request class; a legal key is kept also when
\* its value is None or empty, with the value it had (in cloud mode an empty or
\* absent batch_identifiers of a runtime request becomes the timestamp).
C25_ExactlyLegalKeys ==
  \A i \in DOMAIN calls :
    LET c == calls[i]
        merged == MergedInput(c)
        stamped == cloud /\ c.out.cls = "RuntimeBatchRequest"
    IN c.out.kind = "ok" =>
         /\ DOMAIN c.out.req =
              (DOMAIN merged \cup (IF stamped THEN {"batch_identifiers"} ELSE {}))
                \cap FieldNames(c.out.cls)
         /\ \A key \in DOMAIN c.out.req :
              (key = "batch_identifiers" /\ stamped) \/ c.out.req[key] = merged[key]

\* a request returned with an empty batch_identifiers and a null
\* datasource_name, the key unknown_field removed
C25_Witness ==
  \E i \in DOMAIN calls :
    /\ calls[i].out.kind = "ok"
    /\ "unknown_field" \in DOMAIN MergedInput(calls[i])
    /\ "unknown_field" \notin DOMAIN calls[i].out.req
    /\ "batch_identifiers" \in DOMAIN calls[i].out.req
    /\ calls[i].out.req["batch_identifiers"] = Dict(NoDict)

---------------------------------------------------------------------------
(* A run whose entries override evaluation_parameters and runtime_configuration *)

EmptyIdentifiersTop ==
  Some([runtime_parameters |-> Dict([batch_data |-> "df1"]), batch_identifiers |-> Dict(NoDict)])

SubstConfigs ==
  [batch_request : {NoneMap, RuntimeTop, EmptyIdentifiersTop},
   expectation_suite_name : {Str("s1")},
   action_list : {<<StoreAction>>},
   evaluation_parameters : {Nul, Dict([p |-> "1"])},
   runtime_configuration : {Nul, Dict([result_format |-> "BASIC"])}]

SubstValues ==
  [batch_request |-> Dict([data_asset_name |-> Str("a1")]),
   action_list |-> Lst(<<NotifyAction>>),
   evaluation_parameters |-> Dict([p |-> "2"]),
   runtime_configuration |-> Dict([result_format |-> "COMPLETE"])]

SubstEntries == {[key \in D |-> SubstValues[key]] : D \in SUBSET DOMAIN SubstValues}

InitSubst ==
  /\ IdleResolve
  /\ IdleToolkit
  /\ cloud \in BOOLEAN
  /\ sent = <<>>
  /\ config \in SubstConfigs
  /\ validations \in SeqsUpTo(SubstEntries, MaxValidations)
  /\ idx = 1
  /\ phase = "Merged"
  /\ current = NoEntry
  /\ executed = {}
  /\ dispatched = {}
  /\ failure = NoFailure

SpecSubst == InitSubst /\ [][NextRun]_vars

\* the entry just resolved is resolved as a first call on the run
\* configuration would resolve it
ResolvedAfresh ==
  phase = "Resolved" =>
    current = get_substituted_validation_dict(config, EntriesOf(validations)[idx], now).val

---------------------------------------------------------------------------
(* The cloud-mode rule on the per-validation path *)

\* the keys of the merged request of the entry being resolved
MergedForEntry == Update(OrEmpty(config.batch_request), OrEmpty(EntryRequest(EntriesOf(validations)[idx])))

\* C27: in a cloud-mode run, the batch request get_substituted_validation_dict
\* resolves for an entry has exactly the batch identifier "timestamp" whenever
\* the merged request is runtime-shaped and supplies no batch identifiers.
C27_TimestampPerEntry ==
  (/\ cloud /\ phase = "Resolved"
   /\ "runtime_parameters" \in DOMAIN MergedForEntry
   /\ Falsy(Get(MergedForEntry, "batch_identifiers"))) =>
    /\ Get(current.batch_request.req, "batch_identifiers").k = "dict"
    /\ DOMAIN current.batch_request.req["batch_identifiers"].d = {"timestamp"}

---------------------------------------------------------------------------
(* delete_checkpoint and get_checkpoint on a key that is not stored *)

\* the last call addressed a checkpoint by exactly one of name and cloud id
OneAddress == Falsy(last.arg["name"]) # Falsy(last.arg["ge_cloud_id"])

LastKey == LookupKey(last.arg["name"], last.arg["ge_cloud_id"])

\* C28: delete_checkpoint on a name or cloud id that is not in the store
\* raises CheckpointNotFoundError and the store is left without that key; after
\* a successful delete the key is gone, and get_checkpoint on a key that is not
\* in the store raises CheckpointNotFoundError too.
C28_AbsentKeyNotFound ==
  /\ (last.op \in {"get", "delete"} /\ OneAddress /\ ~last.stored.some) =>
       last.kind = "CheckpointNotFoundError" /\ LastKey \notin DOMAIN store
  /\ (last.op = "delete" /\ last.kind = "ok") =>
       last.stored.some /\ LastKey \notin DOMAIN store

---------------------------------------------------------------------------
(* run_checkpoint and the checkpoint store *)

\* C29: run_checkpoint never writes to the checkpoint store: after a run,
\* successful or failing, the configuration stored under every key, the
\* runtime_configuration.result_format of the checkpoint that was run
\* included, is what it was before the run.
C29_RunLeavesStore == [][last'.op = "run" => store' = store]_vars

\* a run that took its result_format from the stored configuration, which
\* still has it
C29_Witness ==
  /\ last.op = "run" /\ last.kind = "ok"
  /\ IsNone(last.arg["result_format"])
  /\ last.out["result_format"] = Str("BASIC")
  /\ LastKey \in DOMAIN store
  /\ store[LastKey]["runtime_configuration"] = Dict([result_format |-> "BASIC"])

---------------------------------------------------------------------------
(* get_checkpoint on legacy configurations *)

KwargsOnly == [batch_kwargs |-> Str("k")]
SuitesOnly == [expectation_suite_names |-> Lst(<<>>)]
WholeBatch == [batch_kwargs |-> Str("k"), expectation_suite_names |-> Lst(<<>>)]

BatchesStored ==
  {Lst(<<>>), Lst(<<WholeBatch>>), Lst(<<KwargsOnly>>), Lst(<<SuitesOnly>>),
   Lst(<<KwargsOnly, SuitesOnly>>), Lst(<<KwargsOnly, KwargsOnly>>)}

\* stored configurations with and without config_version, with and without
\* batches
LegacyConfigs ==
  UNION {{[name |-> Str("cp1"), config_version |-> v, validation_operator_name |-> o],
          [name |-> Str("cp1"), config_version |-> v, validation_operator_name |-> o,
           batches |-> b]} :
           v \in {Nul, Num("1")}, o \in {Nul, Str("op1")}, b \in BatchesStored}

InitLegacy ==
  /\ IdleResolve
  /\ IdleRun
  /\ cloud \in BOOLEAN
  /\ sent = <<>>
  /\ \E cfg \in LegacyConfigs :
       store = [key \in {IF cloud THEN GeCloudIdentifier(Str("id1"))
                                  ELSE ConfigurationIdentifier(Str("cp1"))} |-> cfg]
  /\ \E look \in Lookups : last = [NoCall EXCEPT !.arg = look]

NextLegacy == GetGiven

SpecLegacy == InitLegacy /\ [][NextLegacy]_vars

\* the keys of all entries of a batches list, taken together
BatchesKeys(batches) == UNION {DOMAIN batches.d[i] : i \in 1..Len(batches.d)}

\* C30: get_checkpoint raises CheckpointError for a stored configuration whose
\* config_version is null, unless it has a batches field that is empty or
\* whose entries, taken together, contain both batch_kwargs and
\* expectation_suite_names; with a config_version it never raises it.
C30_LegacyCheck ==
  (last.op = "get" /\ last.stored.some) =>
    LET cfg == last.stored.m
        sufficient ==
          /\ "batches" \in DOMAIN cfg
          /\ \/ cfg["batches"].d = <<>>
             \/ {"batch_kwargs", "expectation_suite_names"} \subseteq BatchesKeys(cfg["batches"])
    IN IF IsNone(cfg["config_version"]) /\ ~sufficient
         THEN last.kind = "CheckpointError"
         ELSE last.kind = "ok"

\* a legacy configuration whose two batches entries have one key each is loaded
C30_Witness ==
  /\ last.op = "get" /\ last.kind = "ok"
  /\ last.stored.some
  /\ IsNone(last.stored.m["config_version"])
  /\ Get(last.stored.m, "batches") = Lst(<<KwargsOnly, SuitesOnly>>)

===========================================================================
